---------------------------- MODULE Spec2Model ----------------------------
(***************************************************************************)
(* Model of the open-addressing hash table of src/OAHashTable.h and        *)
(* src/OAHashTable.cpp (class OAHashTable<T>).                             *)
(*                                                                         *)
(* A table object is a record with the members of the class: mTable (the   *)
(* slot array, indexed 0..TableSize_-1), mConfig and mStats.  Every member *)
(* function is an operator from the object (and the call's arguments) to   *)
(* the object it leaves behind, the exception it throws and the value it   *)
(* returns; the actions apply these operators to the state.                *)
(***************************************************************************)
EXTENDS Integers, Sequences, FiniteSets, TLC

VARIABLES
    ht,        \* the OAHashTable object
    last,      \* the last public call on ht and how it ended
    twin,      \* a second OAHashTable object, driven in lockstep with ht
    twinLast   \* the last public call on twin and how it ended

vars == <<ht, last, twin, twinLast>>

-----------------------------------------------------------------------------
(* Bounds of the model *)

\* Calls are issued while the cumulative probe counter is below this.
MaxProbes == 7

\* insert is not issued when its growth step would pass this capacity.
MaxTableSize == 17

\* The keys (C strings, modelled by the number the hash functions see) and
\* the client data values the calls are issued with.
Keys == {6, 13, 20}
DataValues == {1, 2}

\* The sizes and factors the table is constructed with: InitialTableSize_,
\* MaxLoadFactor_ and GrowthFactor_ (each factor a fraction: numerator,
\* denominator).
Geometries ==
    {<<7, <<1, 2>>, <<2, 1>>>>,
     <<3, <<1, 2>>, <<2, 1>>>>,
     <<2, <<1, 1>>, <<3, 2>>>>,
     <<1, <<1, 2>>, <<3, 2>>>>,
     <<4, <<1, 2>>, <<3, 2>>>>}
FreeProcs == {TRUE}          \* whether a FreeProc_ is given

-----------------------------------------------------------------------------
(* Types of OAHashTable.h *)

\* enum OAHTSlot_State
OCCUPIED == "OCCUPIED"
UNOCCUPIED == "UNOCCUPIED"
DELETED == "DELETED"

\* enum OAHTDeletionPolicy
MARK == "MARK"
PACK == "PACK"

\* enum OAHASHTABLE_EXCEPTION; NoException is a call that returned normally,
\* Diverges a call whose loop never exits.
E_ITEM_NOT_FOUND == "E_ITEM_NOT_FOUND"
E_DUPLICATE == "E_DUPLICATE"
NoException == "none"
Diverges == "diverges"

\* Count_, Probes_ and Expansions_ are unsigned, 32 bits wide.  An unsigned
\* value v is held here as its two's complement reading: v itself below 2^31
\* and v - 2^32 from there on, so that 0 - 1 = -1 stands for 4294967295 and
\* ++ and -- are + 1 and - 1.  LoadFactorExceeded compares the value read as
\* unsigned, as static_cast<double> sees it.
Wrapped(n) == n < 0

\* The client-provided hash functions (typedef HASHFUNC): any deterministic
\* function into [0, TableSize).  The model's client hashes by remainder.
PrimaryHashFunc(Key, TableSize) == Key % TableSize

SecondaryHashFunc(Key, TableSize) ==
    IF TableSize = 0 THEN 0 ELSE Key % TableSize

\* struct OAHTConfig, as the constructor's argument.  SecondaryHashFunc_ is
\* TRUE when a secondary hash function is given (double hashing).
OAHTConfig ==
    {[InitialTableSize_ |-> g[1],
      SecondaryHashFunc_ |-> secondary,
      MaxLoadFactor_ |-> g[2],
      GrowthFactor_ |-> g[3],
      DeletionPolicy_ |-> policy,
      FreeProc_ |-> freeProc] :
        g \in Geometries, secondary \in BOOLEAN, policy \in {MARK, PACK},
        freeProc \in FreeProcs}

\* A slot of a freshly allocated array: new OAHTSlot[n] leaves Key and Data
\* indeterminate (no member function reads them while the slot is
\* UNOCCUPIED); the constructor and GrowTable set State.
FreshSlot == [Key |-> 0, Data |-> 0, State |-> UNOCCUPIED]

FreshTable(n) == [i \in 0..(n - 1) |-> FreshSlot]

\* OAHashTable<T>::OAHashTable
Construct(Config) ==
    [mTable |-> FreshTable(Config.InitialTableSize_),
     mConfig |-> Config,
     mStats |-> [Count_ |-> 0,
                 TableSize_ |-> Config.InitialTableSize_,
                 Probes_ |-> 0,
                 Expansions_ |-> 0]]


-----------------------------------------------------------------------------
(* Probing *)

\* The increment of a key's probe sequence: InsertInTable, lines 200-204, and
\* IndexOf, lines 294-298.
Stride(Config, Key, tableSize) ==
    IF Config.SecondaryHashFunc_
    THEN SecondaryHashFunc(Key, tableSize - 1) + 1
    ELSE 1

\* "Wrap around the array if needed": one subtraction of the table size.
Wrap(index, tableSize) ==
    IF index > tableSize - 1 THEN index - tableSize ELSE index

\* The loop of IndexOf, entered at its head with the probes counted so far.
\* The result is the index returned (-1: not found) and the probes counted.
RECURSIVE IndexOfWalk(_, _, _, _, _, _, _)
IndexOfWalk(table, tableSize, Key, index, stride, originalIndex, probes) ==
    IF table[index].State \in {OCCUPIED, DELETED}
    THEN IF table[index].Key = Key
         THEN [index |-> index, probes |-> probes + 1]
         ELSE LET next == Wrap(index + stride, tableSize)
                  counted == probes + 1
                             + (IF table[next].State = UNOCCUPIED THEN 1 ELSE 0)
              IN  IF next = originalIndex
                  THEN [index |-> -1, probes |-> counted]
                  ELSE IndexOfWalk(table, tableSize, Key, next, stride,
                                   originalIndex, counted)
    ELSE [index |-> -1, probes |-> probes]

\* IndexOf without the count of line 302-303 for a first slot that is
\* UNOCCUPIED.
IndexOfFirstUncounted(this, Key) ==
    IndexOfWalk(this.mTable, this.mStats.TableSize_, Key,
                PrimaryHashFunc(Key, this.mStats.TableSize_),
                Stride(this.mConfig, Key, this.mStats.TableSize_),
                PrimaryHashFunc(Key, this.mStats.TableSize_), 0)

\* OAHashTable<T>::IndexOf: the index of Key's slot or -1, and the number of
\* probes it adds to mStats.Probes_ (mStats is mutable).
IndexOf(this, Key) ==
    LET tableSize == this.mStats.TableSize_
        index == PrimaryHashFunc(Key, tableSize)
        stride == Stride(this.mConfig, Key, tableSize)
        first == IF this.mTable[index].State = UNOCCUPIED THEN 1 ELSE 0
    IN  IndexOfWalk(this.mTable, tableSize, Key, index, stride, index, first)

\* table[i] as CheckForMarkInsertionDuplicate reads it.  An index at or past
\* tableSize is outside the array: the read is undefined behaviour, and
\* yields whatever the memory behind the array holds, oob.
ReadSlot(table, tableSize, i, oob) ==
    IF i < tableSize THEN table[i] ELSE oob

\* What a read outside the array can yield, as far as the caller tells the
\* outcomes apart: a State that is neither OCCUPIED nor DELETED, or one of
\* the two with a Key equal to, or different from, the key being inserted.
OutOfBoundsSlots(Key) ==
    {[Key |-> 0, Data |-> 0, State |-> UNOCCUPIED],
     [Key |-> 0, Data |-> 0, State |-> OCCUPIED],
     [Key |-> Key, Data |-> 0, State |-> OCCUPIED]}

\* The loop of CheckForMarkInsertionDuplicate.  It has no exit but an
\* UNOCCUPIED slot or a matching key: once it has run 2 * tableSize times it
\* has been round the whole cycle of its probe sequence and never exits.
RECURSIVE DuplicateWalk(_, _, _, _, _, _, _, _)
DuplicateWalk(table, tableSize, Key, duplicateCheckIndex, stride, probes, n, oob) ==
    LET slot == ReadSlot(table, tableSize, duplicateCheckIndex, oob)
    IN  IF slot.State \in {DELETED, OCCUPIED}
        THEN IF slot.Key = Key
             THEN [probes |-> probes + 1, exc |-> E_DUPLICATE]
             ELSE IF n >= 2 * tableSize
                  THEN [probes |-> probes + 1, exc |-> Diverges]
                  ELSE DuplicateWalk(table, tableSize, Key,
                                     Wrap(duplicateCheckIndex + stride, tableSize),
                                     stride, probes + 1, n + 1, oob)
        ELSE [probes |-> probes + 1, exc |-> NoException]

\* OAHashTable<T>::CheckForMarkInsertionDuplicate.  The first index,
\* index + stride, is not wrapped.
CheckForMarkInsertionDuplicate(index, stride, table, tableSize, Key, oob) ==
    DuplicateWalk(table, tableSize, Key, index + stride, stride, 0, 0, oob)

\* The search loop of InsertInTable (lines 206-224).  Its only exits are a
\* slot that is not OCCUPIED and a matching key: after tableSize iterations
\* it has been round the whole cycle of the probe sequence and never exits.
RECURSIVE InsertWalk(_, _, _, _, _, _, _)
InsertWalk(table, tableSize, Key, index, stride, probes, n) ==
    IF table[index].State = OCCUPIED
    THEN IF table[index].Key = Key
         THEN [index |-> index, probes |-> probes, exc |-> E_DUPLICATE]
         ELSE IF n >= tableSize
              THEN [index |-> index, probes |-> probes, exc |-> Diverges]
              ELSE InsertWalk(table, tableSize, Key,
                              Wrap(index + stride, tableSize), stride,
                              probes + 1, n + 1)
    ELSE [index |-> index, probes |-> probes, exc |-> NoException]

\* The end of InsertInTable (lines 226-239) once the search loop has ended
\* as walk and the duplicate guard as check: the slot is written unless one
\* of them threw.
PlaceInSlot(table, Key, Data, walk, check) ==
    IF walk.exc # NoException
    THEN [table |-> table, probes |-> walk.probes, exc |-> walk.exc]
    ELSE IF check.exc # NoException
    THEN [table |-> table, probes |-> walk.probes + check.probes,
          exc |-> check.exc]
    ELSE [table |-> [table EXCEPT ![walk.index] =
                        [Key |-> Key, Data |-> Data, State |-> OCCUPIED]],
          probes |-> walk.probes + check.probes + 1,
          exc |-> NoException]

\* Lines 226-230 of InsertInTable: the duplicate guard runs when the search
\* loop ended, as walk, on a DELETED slot under the MARK policy.
GuardAfterWalk(Config, table, tableSize, Key, stride, oob, walk) ==
    IF /\ walk.exc = NoException
       /\ table[walk.index].State = DELETED
       /\ Config.DeletionPolicy_ = MARK
    THEN CheckForMarkInsertionDuplicate(walk.index, stride, table, tableSize,
                                        Key, oob)
    ELSE [probes |-> 0, exc |-> NoException]

\* InsertInTable from the end of its search loop, walk.
InsertAfterWalk(Config, table, tableSize, Key, Data, stride, oob, walk) ==
    PlaceInSlot(table, Key, Data, walk,
                GuardAfterWalk(Config, table, tableSize, Key, stride, oob, walk))

\* OAHashTable<T>::InsertInTable on the array table of tableSize slots: the
\* array it leaves, the probes it adds to mStats.Probes_, the exception.
InsertInTable(Config, table, tableSize, Key, Data, oob) ==
    InsertAfterWalk(Config, table, tableSize, Key, Data,
                    Stride(Config, Key, tableSize), oob,
                    InsertWalk(table, tableSize, Key,
                               PrimaryHashFunc(Key, tableSize),
                               Stride(Config, Key, tableSize), 0, 0))

\* The indices at which the loop of CheckForMarkInsertionDuplicate reads
\* table (line 374), from duplicateCheckIndex on, n iterations done.
RECURSIVE DuplicateReads(_, _, _, _, _, _, _)
DuplicateReads(table, tableSize, Key, duplicateCheckIndex, stride, n, oob) ==
    IF /\ ReadSlot(table, tableSize, duplicateCheckIndex, oob).State
             \in {DELETED, OCCUPIED}
       /\ ReadSlot(table, tableSize, duplicateCheckIndex, oob).Key # Key
       /\ n < 2 * tableSize
    THEN {duplicateCheckIndex}
            \cup DuplicateReads(table, tableSize, Key,
                                Wrap(duplicateCheckIndex + stride, tableSize),
                                stride, n + 1, oob)
    ELSE {duplicateCheckIndex}

\* The indices at which InsertInTable has table read by the duplicate guard
\* (lines 226-230), its search loop having ended as walk: none when the
\* guard does not run.
GuardReads(Config, table, tableSize, Key, stride, oob, walk) ==
    IF /\ walk.exc = NoException
       /\ table[walk.index].State = DELETED
       /\ Config.DeletionPolicy_ = MARK
    THEN DuplicateReads(table, tableSize, Key, walk.index + stride, stride, 0,
                        oob)
    ELSE {}

-----------------------------------------------------------------------------
(* Growth *)

IsPrime(n) == n > 1 /\ \A d \in 2..(n - 1) : n % d # 0

\* GetClosestPrime of Support.h: the smallest prime at or above n.
RECURSIVE GetClosestPrime(_)
GetClosestPrime(n) == IF IsPrime(n) THEN n ELSE GetClosestPrime(n + 1)

\* std::ceil(TableSize_ * GrowthFactor_), the factor a fraction.
CeilTimes(tableSize, factor) ==
    (tableSize * factor[1] + factor[2] - 1) \div factor[2]

\* The size of GrowTable without the call of GetClosestPrime.
NewTableSizeNotPrime(this) ==
    CeilTimes(this.mStats.TableSize_, this.mConfig.GrowthFactor_)

\* The size GrowTable allocates (lines 250-251).
NewTableSize(this) ==
    GetClosestPrime(CeilTimes(this.mStats.TableSize_, this.mConfig.GrowthFactor_))

\* The loop of GrowTable over the old array from slot i on (lines 263-269);
\* GrowMoved is the loop once InsertInTable has ended as r for slot i.
RECURSIVE GrowMove(_, _, _, _, _, _)
RECURSIVE GrowMoved(_, _, _, _, _, _, _)
GrowMove(this, i, newTable, newTableSize, probes, oob) ==
    IF i >= this.mStats.TableSize_
    THEN [table |-> newTable, probes |-> probes, exc |-> NoException]
    ELSE IF this.mTable[i].State = OCCUPIED
    THEN GrowMoved(this, i, newTable, newTableSize, probes, oob,
                   InsertInTable(this.mConfig, newTable, newTableSize,
                                 this.mTable[i].Key, this.mTable[i].Data, oob))
    ELSE GrowMove(this, i + 1, newTable, newTableSize, probes, oob)

GrowMoved(this, i, newTable, newTableSize, probes, oob, r) ==
    IF r.exc # NoException
    THEN [table |-> newTable, probes |-> probes + r.probes, exc |-> r.exc]
    ELSE GrowMove(this, i + 1, r.table, newTableSize, probes + r.probes, oob)

\* The end of GrowTable (lines 271-278) once its loop has ended as moved.  An
\* exception of InsertInTable leaves mTable and TableSize_ as they were (the
\* new array is lost), with the probes counted so far.
InstallTable(this, newTableSize, moved) ==
    IF moved.exc # NoException
    THEN [this |-> [this EXCEPT !.mStats.Probes_ = @ + moved.probes],
          exc |-> moved.exc]
    ELSE [this |-> [this EXCEPT
                       !.mTable = moved.table,
                       !.mStats.TableSize_ = newTableSize,
                       !.mStats.Probes_ = @ + moved.probes,
                       !.mStats.Expansions_ = @ + 1],
          exc |-> NoException]

\* GrowTable without its loop over the old array: the new array is installed
\* with every slot UNOCCUPIED.
GrowTableToEmpty(this, newTableSize, oob) ==
    InstallTable(this, newTableSize,
                 [table |-> FreshTable(newTableSize), probes |-> 0,
                  exc |-> NoException])

\* GrowTable with the new size computed.
GrowTableTo(this, newTableSize, oob) ==
    InstallTable(this, newTableSize,
                 GrowMove(this, 0, FreshTable(newTableSize), newTableSize, 0,
                          oob))

\* OAHashTable<T>::GrowTable: the object it leaves and the exception.
GrowTable(this, oob) == GrowTableTo(this, NewTableSize(this), oob)

-----------------------------------------------------------------------------
(* The public member functions.  Each yields the object it leaves (this),  *)
(* the exception it throws (exc), the value it returns (ret, 0 if none)    *)
(* and the values it passed to mConfig.FreeProc_, in order (freed).        *)

\* The guard of insert, lines 50-53: (Count_ + 1) / TableSize_ exceeds
\* MaxLoadFactor_.  Count_ + 1 is computed in unsigned before the cast.
LoadFactorExceeded(this) ==
    LET next == this.mStats.Count_ + 1
    IN  \/ Wrapped(next)      \* 2^31 or more, over any table size here
        \/ next * this.mConfig.MaxLoadFactor_[2]
              > this.mConfig.MaxLoadFactor_[1] * this.mStats.TableSize_

\* The end of insert (lines 59-60) on the object grown, once InsertInTable
\* has ended as r.
CountInserted(grown, r) ==
    IF r.exc # NoException
    THEN [this |-> [grown EXCEPT !.mStats.Probes_ = @ + r.probes],
          exc |-> r.exc, ret |-> 0, freed |-> <<>>]
    ELSE [this |-> [grown EXCEPT !.mTable = r.table,
                                 !.mStats.Probes_ = @ + r.probes,
                                 !.mStats.Count_ = @ + 1],
          exc |-> NoException, ret |-> 0, freed |-> <<>>]

\* insert from line 58 on, the growth step having ended as grown.
InsertAfterGrowth(grown, Key, Data, oob) ==
    IF grown.exc # NoException
    THEN [this |-> grown.this, exc |-> grown.exc, ret |-> 0, freed |-> <<>>]
    ELSE CountInserted(grown.this,
                       InsertInTable(grown.this.mConfig, grown.this.mTable,
                                     grown.this.mStats.TableSize_, Key, Data,
                                     oob))

\* OAHashTable<T>::insert
insert(this, Key, Data, oob) ==
    InsertAfterGrowth(IF LoadFactorExceeded(this)
                      THEN GrowTable(this, oob)
                      ELSE [this |-> this, exc |-> NoException],
                      Key, Data, oob)

\* index++ with "wrap around array if necessary" (remove, lines 95-101 and
\* 112-118).
NextIndex(index, tableSize) ==
    IF index + 1 > tableSize - 1 THEN 0 ELSE index + 1

\* The loop of remove under PACK (lines 104-119), entered at its head;
\* PackRepaired is the loop once InsertInTable has ended as r for slot index.
\* InsertInTable is handed the slot's own Key and Data: when it chooses the
\* same slot again, it copies them onto themselves and they stay as they are.
RECURSIVE PackRepair(_, _, _, _)
RECURSIVE PackRepaired(_, _, _, _, _)
PackRepair(this, index, originalIndex, oob) ==
    IF this.mTable[index].State = OCCUPIED /\ index # originalIndex
    THEN PackRepaired(this, index, originalIndex, oob,
                      InsertInTable(this.mConfig,
                                    [this.mTable EXCEPT
                                        ![index].State = UNOCCUPIED],
                                    this.mStats.TableSize_,
                                    this.mTable[index].Key,
                                    this.mTable[index].Data, oob))
    ELSE [this |-> this, exc |-> NoException]

PackRepaired(this, index, originalIndex, oob, r) ==
    IF r.exc # NoException
    THEN [this |-> [this EXCEPT !.mTable = r.table,
                                !.mStats.Probes_ = @ + r.probes],
          exc |-> r.exc]
    ELSE PackRepair([this EXCEPT !.mTable = r.table,
                                 !.mStats.Probes_ = @ + r.probes],
                    NextIndex(index, this.mStats.TableSize_), originalIndex,
                    oob)

\* The end of remove under PACK once the loop has ended as packed.
RemovePacked(freed, packed) ==
    [this |-> packed.this, exc |-> packed.exc, ret |-> 0, freed |-> freed]

\* remove from line 76 on with the slot marked DELETED whatever the policy.
RemoveFoundMarking(this, oob, found) ==
    IF found.index = -1
    THEN [this |-> [this EXCEPT !.mStats.Probes_ = @ + found.probes],
          exc |-> E_ITEM_NOT_FOUND, ret |-> 0, freed |-> <<>>]
    ELSE [this |-> [this EXCEPT
                       !.mStats.Probes_ = @ + found.probes,
                       !.mStats.Count_ = @ - 1,
                       !.mTable[found.index].State = DELETED],
          exc |-> NoException, ret |-> 0, freed |-> <<>>]

\* remove from line 76 on, IndexOf having ended as found.
RemoveFound(this, oob, found) ==
    IF found.index = -1
    THEN [this |-> [this EXCEPT !.mStats.Probes_ = @ + found.probes],
          exc |-> E_ITEM_NOT_FOUND, ret |-> 0, freed |-> <<>>]
    ELSE IF this.mConfig.DeletionPolicy_ = PACK
    THEN RemovePacked(
             IF this.mConfig.FreeProc_
             THEN <<this.mTable[found.index].Data>> ELSE <<>>,
             PackRepair([this EXCEPT
                            !.mStats.Probes_ = @ + found.probes,
                            !.mStats.Count_ = @ - 1,
                            !.mTable[found.index].State = UNOCCUPIED],
                        NextIndex(found.index, this.mStats.TableSize_),
                        found.index, oob))
    ELSE [this |-> [this EXCEPT
                       !.mStats.Probes_ = @ + found.probes,
                       !.mStats.Count_ = @ - 1,
                       !.mTable[found.index].State = DELETED],
          exc |-> NoException, ret |-> 0, freed |-> <<>>]

\* OAHashTable<T>::remove
remove(this, Key, oob) == RemoveFound(this, oob, IndexOf(this, Key))

\* find from line 140 on, IndexOf having ended as found.
FindFound(this, found) ==
    IF found.index = -1
    THEN [this |-> [this EXCEPT !.mStats.Probes_ = @ + found.probes],
          exc |-> E_ITEM_NOT_FOUND, ret |-> 0, freed |-> <<>>]
    ELSE [this |-> [this EXCEPT !.mStats.Probes_ = @ + found.probes],
          exc |-> NoException, ret |-> this.mTable[found.index].Data,
          freed |-> <<>>]

\* OAHashTable<T>::find
find(this, Key) == FindFound(this, IndexOf(this, Key))

\* The loop of clear from slot i on, with the values freed so far.
RECURSIVE ClearFrom(_, _, _)
ClearFrom(this, i, freed) ==
    IF i >= this.mStats.TableSize_
    THEN [this |-> this, exc |-> NoException, ret |-> 0, freed |-> freed]
    ELSE IF this.mTable[i].State # UNOCCUPIED
    THEN ClearFrom(
             [this EXCEPT
                 !.mStats.Count_ = IF this.mTable[i].State # DELETED
                                   THEN @ - 1 ELSE @,
                 !.mTable[i].State = UNOCCUPIED],
             i + 1,
             IF this.mConfig.FreeProc_
             THEN Append(freed, this.mTable[i].Data) ELSE freed)
    ELSE ClearFrom(this, i + 1, freed)

\* OAHashTable<T>::clear
clear(this) == ClearFrom(this, 0, <<>>)

-----------------------------------------------------------------------------
(* The state machine: a client calling the public member functions *)

Call(op, Key, Data, r) ==
    [op |-> op, Key |-> Key, Data |-> Data, exc |-> r.exc, ret |-> r.ret,
     freed |-> r.freed]

NoCall ==
    [op |-> "none", Key |-> 0, Data |-> 0, exc |-> NoException, ret |-> 0,
     freed |-> <<>>]

\* A call is issued when the previous one has returned or thrown, and while
\* the probe counter is below the model's bound.
CanCall(this, call) ==
    /\ call.exc # Diverges
    /\ this.mStats.Probes_ < MaxProbes

\* insert is issued while its growth step stays within the model's bound.
CanInsert(this) ==
    LoadFactorExceeded(this) => NewTableSize(this) <= MaxTableSize

Init ==
    /\ \E Config \in OAHTConfig :
          /\ ht = Construct(Config)
          /\ twin = Construct(Config)
    /\ last = NoCall
    /\ twinLast = NoCall

\* The call of op on ht ends as r.
CallEnds(op, Key, Data, r) ==
    /\ ht' = r.this
    /\ last' = Call(op, Key, Data, r)

Insert(Key, Data) ==
    /\ CanCall(ht, last)
    /\ CanInsert(ht)
    /\ \E oob \in OutOfBoundsSlots(Key) :
          CallEnds("insert", Key, Data, insert(ht, Key, Data, oob))
    /\ UNCHANGED <<twin, twinLast>>

Remove(Key) ==
    /\ CanCall(ht, last)
    /\ CallEnds("remove", Key, 0, remove(ht, Key, FreshSlot))
    /\ UNCHANGED <<twin, twinLast>>

Find(Key) ==
    /\ CanCall(ht, last)
    /\ CallEnds("find", Key, 0, find(ht, Key))
    /\ UNCHANGED <<twin, twinLast>>

Clear ==
    /\ CanCall(ht, last)
    /\ CallEnds("clear", 0, 0, clear(ht))
    /\ UNCHANGED <<twin, twinLast>>

Next ==
    \/ \E Key \in Keys, Data \in DataValues : Insert(Key, Data)
    \/ \E Key \in Keys : Remove(Key)
    \/ \E Key \in Keys : Find(Key)
    \/ Clear

Spec == Init /\ [][Next]_vars

-----------------------------------------------------------------------------
(* Two tables side by side: ht with the MARK policy and twin with the PACK *)
(* policy, otherwise constructed alike, receive the same calls.            *)

InitEquiv ==
    /\ \E Config \in OAHTConfig :
          /\ Config.DeletionPolicy_ = MARK
          /\ ht = Construct(Config)
          /\ twin = Construct([Config EXCEPT !.DeletionPolicy_ = PACK])
    /\ last = NoCall
    /\ twinLast = NoCall

CanCallBoth == CanCall(ht, last) /\ CanCall(twin, twinLast)

\* The call of op on twin ends as r.
TwinCallEnds(op, Key, Data, r) ==
    /\ twin' = r.this
    /\ twinLast' = Call(op, Key, Data, r)

InsertBoth(Key, Data) ==
    /\ CanCallBoth
    /\ CanInsert(ht)
    /\ CanInsert(twin)
    /\ \E oob \in OutOfBoundsSlots(Key) :
          /\ CallEnds("insert", Key, Data, insert(ht, Key, Data, oob))
          /\ TwinCallEnds("insert", Key, Data, insert(twin, Key, Data, oob))

RemoveBoth(Key) ==
    /\ CanCallBoth
    /\ CallEnds("remove", Key, 0, remove(ht, Key, FreshSlot))
    /\ TwinCallEnds("remove", Key, 0, remove(twin, Key, FreshSlot))

FindBoth(Key) ==
    /\ CanCallBoth
    /\ CallEnds("find", Key, 0, find(ht, Key))
    /\ TwinCallEnds("find", Key, 0, find(twin, Key))

NextEquiv ==
    \/ \E Key \in Keys, Data \in DataValues : InsertBoth(Key, Data)
    \/ \E Key \in Keys : RemoveBoth(Key)
    \/ \E Key \in Keys : FindBoth(Key)

SpecEquiv == InitEquiv /\ [][NextEquiv]_vars

-----------------------------------------------------------------------------
(* A client that inserts and removes for longer, on the table constructed  *)
(* with 3 slots, MaxLoadFactor_ 0.5 and GrowthFactor_ 2.                   *)

\* Calls of this client are issued while the probe counter is below this.
MaxProbesLong == 9

InitLong ==
    /\ \E Config \in OAHTConfig :
          /\ Config.InitialTableSize_ = 3
          /\ ht = Construct(Config)
          /\ twin = Construct(Config)
    /\ last = NoCall
    /\ twinLast = NoCall

CanCallLong(this, call) ==
    /\ call.exc # Diverges
    /\ this.mStats.Probes_ < MaxProbesLong

InsertLong(Key, Data) ==
    /\ CanCallLong(ht, last)
    /\ CanInsert(ht)
    /\ \E oob \in OutOfBoundsSlots(Key) :
          CallEnds("insert", Key, Data, insert(ht, Key, Data, oob))
    /\ UNCHANGED <<twin, twinLast>>

RemoveLong(Key) ==
    /\ CanCallLong(ht, last)
    /\ CallEnds("remove", Key, 0, remove(ht, Key, FreshSlot))
    /\ UNCHANGED <<twin, twinLast>>

NextLong ==
    \/ \E Key \in Keys, Data \in DataValues : InsertLong(Key, Data)
    \/ \E Key \in Keys : RemoveLong(Key)

SpecLong == InitLong /\ [][NextLong]_vars

-----------------------------------------------------------------------------
(* What a client observes *)

\* Key is held by an OCCUPIED slot: it is logically present.
Present(this, Key) ==
    \E i \in DOMAIN this.mTable :
        this.mTable[i].State = OCCUPIED /\ this.mTable[i].Key = Key

\* The number of OCCUPIED slots.
OccupiedCount(this) ==
    Cardinality({i \in DOMAIN this.mTable : this.mTable[i].State = OCCUPIED})

\* The keys for which find succeeds.
Findable(this) == {Key \in Keys : find(this, Key).exc = NoException}

\* The step is a call of op that returned normally.
Returned(op) == last'.op = op /\ last'.exc = NoException

-----------------------------------------------------------------------------
(* Claims *)

\* C1: removal completeness, under MARK and under PACK: after remove(k) of a
\* present key k returns, find(k) raises NotFound and count is one less than
\* before the call.
C1_RemovalCompleteness ==
    [][(Returned("remove") /\ Present(ht, last'.Key))
          => /\ find(ht', last'.Key).exc = E_ITEM_NOT_FOUND
             /\ ht'.mStats.Count_ = ht.mStats.Count_ - 1]_vars

\* C2: no data loss on PACK removal, with linear probing and with double
\* hashing: after a successful remove(k) every other key held by an OCCUPIED
\* slot before the call is still found, with the value that slot held.
C2_PackKeepsOtherKeys ==
    [][(Returned("remove") /\ ht.mConfig.DeletionPolicy_ = PACK)
          => \A i \in DOMAIN ht.mTable :
                (ht.mTable[i].State = OCCUPIED /\ ht.mTable[i].Key # last'.Key)
                   => /\ find(ht', ht.mTable[i].Key).exc = NoException
                      /\ find(ht', ht.mTable[i].Key).ret = ht.mTable[i].Data]_vars

\* C3: duplicate rejection is all-or-nothing: insert of a present key raises
\* Duplicate and leaves count, capacity, the expansion counter, every slot
\* and the result of find for every key as they were.
C3_DuplicateChangesNothing ==
    [][(last'.op = "insert" /\ Present(ht, last'.Key))
          => /\ last'.exc = E_DUPLICATE
             /\ ht'.mTable = ht.mTable
             /\ ht'.mStats.Count_ = ht.mStats.Count_
             /\ ht'.mStats.TableSize_ = ht.mStats.TableSize_
             /\ ht'.mStats.Expansions_ = ht.mStats.Expansions_
             /\ \A Key \in Keys :
                   /\ find(ht', Key).exc = find(ht, Key).exc
                   /\ find(ht', Key).ret = find(ht, Key).ret]_vars

\* C4: count invariant: between calls, count equals the number of OCCUPIED
\* slots and has not wrapped below zero.
C4_CountIsOccupied ==
    /\ ht.mStats.Count_ = OccupiedCount(ht)
    /\ ~Wrapped(ht.mStats.Count_)

\* C5: key uniqueness: between calls, no two OCCUPIED slots hold the same
\* key.
C5_KeysUnique ==
    \A i, j \in DOMAIN ht.mTable :
        (/\ i # j
         /\ ht.mTable[i].State = OCCUPIED
         /\ ht.mTable[j].State = OCCUPIED)
           => ht.mTable[i].Key # ht.mTable[j].Key

\* C6: load-factor invariant: after a successful insert,
\* count / capacity <= MaxLoadFactor.
C6_LoadFactorBounded ==
    (last.op = "insert" /\ last.exc = NoException)
       => /\ ~Wrapped(ht.mStats.Count_)
          /\ ht.mStats.Count_ * ht.mConfig.MaxLoadFactor_[2]
                <= ht.mConfig.MaxLoadFactor_[1] * ht.mStats.TableSize_

C8_InsertThenFind ==
    [][(last'.op = "insert" /\ ~Present(ht, last'.Key))
          => /\ last'.exc = NoException
             /\ find(ht', last'.Key).exc = NoException
             /\ find(ht', last'.Key).ret = last'.Data]_vars

\* C9: MARK/PACK observable equivalence: after every call, the table with
\* policy MARK and the table with policy PACK agree on the set of keys for
\* which find succeeds and on the exception the call raised.
C9_MarkPackAgree ==
    /\ Findable(ht) = Findable(twin)
    /\ last.exc = twinLast.exc

\* C10: remove(k) of a key that is not present raises NotFound and changes
\* neither count, capacity nor any slot, under MARK as under PACK.
C10_RemoveAbsentChangesNothing ==
    [][(last'.op = "remove" /\ ~Present(ht, last'.Key))
          => /\ last'.exc = E_ITEM_NOT_FOUND
             /\ ht'.mStats.Count_ = ht.mStats.Count_
             /\ ht'.mStats.TableSize_ = ht.mStats.TableSize_
             /\ ht'.mTable = ht.mTable]_vars

\* C11: clear: after clear() count is 0, every slot is UNOCCUPIED, capacity
\* is as before the call and find raises NotFound for every key that was
\* present; a second clear() right after changes no slot, nor count, nor
\* capacity.
C11_ClearEmptiesTable ==
    [][last'.op = "clear"
          => /\ last'.exc = NoException
             /\ ht'.mStats.Count_ = 0
             /\ \A i \in DOMAIN ht'.mTable : ht'.mTable[i].State = UNOCCUPIED
             /\ ht'.mStats.TableSize_ = ht.mStats.TableSize_
             /\ \A Key \in Keys :
                   Present(ht, Key) => find(ht', Key).exc = E_ITEM_NOT_FOUND
             /\ clear(ht').this.mTable = ht'.mTable
             /\ clear(ht').this.mStats.Count_ = ht'.mStats.Count_
             /\ clear(ht').this.mStats.TableSize_ = ht'.mStats.TableSize_]_vars

\* The number of slots that hold the value d and that clear would pass to
\* FreeProc_: the values the table has stored and not yet discarded.
Held(this, d) ==
    Cardinality({i \in DOMAIN this.mTable :
                    this.mTable[i].State # UNOCCUPIED /\ this.mTable[i].Data = d})

\* The number of times the value d is in the values passed to FreeProc_.
Released(freed, d) == Cardinality({n \in DOMAIN freed : freed[n] = d})

\* C12: release callback exactly once: with a FreeProc_ configured, every
\* call releases exactly the values it discards from the table.  For each
\* value, the slots holding it before the call, plus one when the call is a
\* successful insert of it, are the slots holding it after the call plus the
\* times the call passed it to FreeProc_: no value leaves the table
\* unreleased, and none is released while the table keeps it.
C12_ReleasedExactlyOnce ==
    [][ht.mConfig.FreeProc_
          => \A d \in DataValues :
                Held(ht, d)
                  + (IF Returned("insert") /\ last'.Data = d THEN 1 ELSE 0)
                = Held(ht', d) + Released(last'.freed, d)]_vars

\* C13: termination: every call of insert, remove, find and clear ends (it
\* returns or throws); none runs a loop that never exits.
C13_EveryCallTerminates == last.exc # Diverges

\* n is the smallest prime number at or above tableSize times factor (and so
\* at or above the ceiling of that product).
SmallestPrimeFrom(n, tableSize, factor) ==
    /\ IsPrime(n)
    /\ n * factor[2] >= tableSize * factor[1]
    /\ \A p \in 2..(n - 1) :
          IsPrime(p) => p * factor[2] < tableSize * factor[1]

\* n / tableSize is above the fraction factor, n an unsigned value held as
\* its two's complement reading: a negative n stands for 2^31 or more, which
\* is above factor * tableSize for every table size and factor here.
AboveMaxLoadFactor(n, tableSize, factor) ==
    IF n < 0 THEN TRUE ELSE n * factor[2] > factor[1] * tableSize

\* C14: growth trigger and size: a call of insert grows the table exactly
\* when (count + 1) / capacity is above MaxLoadFactor at entry, and then
\* once: the new capacity is the smallest prime at or above
\* ceil(old capacity * GrowthFactor) and the expansion counter is one more;
\* otherwise capacity and the expansion counter stay as they were.
C14_GrowthTriggerAndSize ==
    [][last'.op = "insert"
          => IF AboveMaxLoadFactor(ht.mStats.Count_ + 1, ht.mStats.TableSize_,
                                   ht.mConfig.MaxLoadFactor_)
             THEN /\ SmallestPrimeFrom(ht'.mStats.TableSize_,
                                       ht.mStats.TableSize_,
                                       ht.mConfig.GrowthFactor_)
                  /\ ht'.mStats.Expansions_ = ht.mStats.Expansions_ + 1
             ELSE /\ ht'.mStats.TableSize_ = ht.mStats.TableSize_
                  /\ ht'.mStats.Expansions_ = ht.mStats.Expansions_]_vars

\* C15: Duplicate is raised only for present keys: when insert(k, v) raises
\* Duplicate, k is held by an OCCUPIED slot at the time of the call; a key
\* whose text only remains in a DELETED slot is inserted.
C15_DuplicateOnlyIfPresent ==
    [][(last'.op = "insert" /\ last'.exc = E_DUPLICATE)
          => Present(ht, last'.Key)]_vars

\* The indices at which the duplicate guard reads the array when insert
\* calls InsertInTable (line 59) on the object this.
GuardReadsOfInsert(this, Key, oob) ==
    GuardReads(this.mConfig, this.mTable, this.mStats.TableSize_, Key,
               Stride(this.mConfig, Key, this.mStats.TableSize_), oob,
               InsertWalk(this.mTable, this.mStats.TableSize_, Key,
                          PrimaryHashFunc(Key, this.mStats.TableSize_),
                          Stride(this.mConfig, Key, this.mStats.TableSize_),
                          0, 0))

\* C16: index bounds: every index at which the duplicate-guard scan of an
\* insert reads the array lies in [0, capacity), its first index, one stride
\* past the reused tombstone, included.  (An insert that grows the table
\* places the key in the new array, which holds no DELETED slot: the guard
\* runs in the calls that do not grow.)
C16_IndicesWithinArray ==
    [][(last'.op = "insert" /\ ~LoadFactorExceeded(ht))
          => \A oob \in OutOfBoundsSlots(last'.Key) :
                \A i \in GuardReadsOfInsert(ht, last'.Key, oob) :
                    0 <= i /\ i < ht.mStats.TableSize_]_vars

\* The probe sequence that goes on from index by stride reaches the slot
\* target before any UNOCCUPIED slot (n slots visited so far).
RECURSIVE ChainReaches(_, _, _, _, _, _)
ChainReaches(table, tableSize, index, stride, target, n) ==
    IF index = target
    THEN TRUE
    ELSE IF table[index].State = UNOCCUPIED \/ n >= tableSize
    THEN FALSE
    ELSE ChainReaches(table, tableSize, Wrap(index + stride, tableSize),
                      stride, target, n + 1)

\* C17: probe-chain reachability: between calls, for every OCCUPIED slot,
\* the probe sequence of the key it holds (from the primary hash, by stride 1
\* or by the secondary hash plus 1) reaches the slot before it reaches any
\* UNOCCUPIED slot.
C17_ProbeChainsUnbroken ==
    \A i \in DOMAIN ht.mTable :
        ht.mTable[i].State = OCCUPIED
           => ChainReaches(ht.mTable, ht.mStats.TableSize_,
                           PrimaryHashFunc(ht.mTable[i].Key,
                                           ht.mStats.TableSize_),
                           Stride(ht.mConfig, ht.mTable[i].Key,
                                  ht.mStats.TableSize_),
                           i, 0)

\* An OCCUPIED slot holds Key with the value Data.
Entry(this, Key, Data) ==
    \E i \in DOMAIN this.mTable :
        /\ this.mTable[i].State = OCCUPIED
        /\ this.mTable[i].Key = Key
        /\ this.mTable[i].Data = Data

\* C18: an insert leaves existing entries intact: after a successful
\* insert(k, v), every key other than k that an OCCUPIED slot held and find
\* returned, with that slot's value, before the call is still returned by
\* find with the same value, whether the call grew the table or not; and
\* count is one more than before the call.
C18_InsertKeepsEntries ==
    [][Returned("insert")
          => /\ ht'.mStats.Count_ = ht.mStats.Count_ + 1
             /\ \A Key \in Keys \ {last'.Key} :
                   \A Data \in DataValues :
                      (/\ Entry(ht, Key, Data)
                       /\ find(ht, Key).exc = NoException
                       /\ find(ht, Key).ret = Data)
                         => /\ find(ht', Key).exc = NoException
                            /\ find(ht', Key).ret = Data]_vars

\* C18's case: an insert has just returned normally with count / capacity
\* above MaxLoadFactor, so it is one that grew the table (one that does not
\* grow leaves count / capacity at or below MaxLoadFactor), and the table
\* holds two other keys from before the call, both found by find.
C18_Witness ==
    /\ last.op = "insert"
    /\ last.exc = NoException
    /\ ht.mStats.Expansions_ > 0
    /\ ht.mStats.Count_ * ht.mConfig.MaxLoadFactor_[2]
          > ht.mConfig.MaxLoadFactor_[1] * ht.mStats.TableSize_
    /\ \A Key \in Keys : Present(ht, Key) /\ find(ht, Key).exc = NoException

\* C19: under the PACK policy no slot is DELETED between calls: every slot
\* is UNOCCUPIED or OCCUPIED.
C19_PackLeavesNoDeleted ==
    ht.mConfig.DeletionPolicy_ = PACK
       => \A i \in DOMAIN ht.mTable : ht.mTable[i].State # DELETED

\* C19's case: under PACK a remove has just returned normally and the table
\* still holds a key.
C19_Witness ==
    /\ ht.mConfig.DeletionPolicy_ = PACK
    /\ last.op = "remove"
    /\ last.exc = NoException
    /\ OccupiedCount(ht) >= 1

\* The number of slots a lookup of Key inspects from index on: every
\* OCCUPIED or DELETED slot it visits, until one holds Key or the walk is
\* back at original, and the UNOCCUPIED slot it ends on, if it ends on one.
RECURSIVE Inspected(_, _, _, _, _, _)
Inspected(table, tableSize, Key, index, stride, original) ==
    IF table[index].State = UNOCCUPIED
    THEN 1
    ELSE IF table[index].Key = Key
    THEN 1
    ELSE IF Wrap(index + stride, tableSize) = original
    THEN 1
    ELSE 1 + Inspected(table, tableSize, Key,
                       Wrap(index + stride, tableSize), stride, original)

SlotsInspected(this, Key) ==
    Inspected(this.mTable, this.mStats.TableSize_, Key,
              PrimaryHashFunc(Key, this.mStats.TableSize_),
              Stride(this.mConfig, Key, this.mStats.TableSize_),
              PrimaryHashFunc(Key, this.mStats.TableSize_))

\* C20: probe accounting of lookup: a call of find adds to the probe counter
\* exactly the number of slots it inspects and changes no slot, nor count,
\* capacity or the expansion counter; and no call decreases the probe
\* counter.
C20_FindCountsProbes ==
    [][/\ ht'.mStats.Probes_ >= ht.mStats.Probes_
       /\ last'.op = "find"
             => /\ ht'.mStats.Probes_
                      = ht.mStats.Probes_ + SlotsInspected(ht, last'.Key)
                /\ ht'.mTable = ht.mTable
                /\ ht'.mStats.Count_ = ht.mStats.Count_
                /\ ht'.mStats.TableSize_ = ht.mStats.TableSize_
                /\ ht'.mStats.Expansions_ = ht.mStats.Expansions_]_vars

\* C20's case: with linear probing, a find has just walked over at least one
\* OCCUPIED or DELETED slot, none holding its key, and ended on an
\* UNOCCUPIED slot.
C20_Witness ==
    /\ last.op = "find"
    /\ last.exc = E_ITEM_NOT_FOUND
    /\ ~ht.mConfig.SecondaryHashFunc_
    /\ ht.mTable[PrimaryHashFunc(last.Key, ht.mStats.TableSize_)].State
          # UNOCCUPIED
    /\ \E i \in DOMAIN ht.mTable : ht.mTable[i].State = UNOCCUPIED
    /\ SlotsInspected(ht, last.Key) >= 2

=============================================================================
